---- MODULE Spec2Model ----
(***************************************************************************)
(* Model of lib/logstorage/json_parser.go (JSONParser: flattening of a     *)
(* JSON object into Fields backed by a reused byte buffer) and of the      *)
(* label-limit validator of package storage (ExceedingLabels with its      *)
(* atomic counters and ticker-throttled log lines).                        *)
(*                                                                         *)
(* Three specifications share the variables:                               *)
(*   SpecLimits  one caller of ExceedingLabels, all small label sets;      *)
(*   SpecConc    several concurrent callers of ExceedingLabels;            *)
(*   SpecParser  one holder of a JSONParser taken from the pool;           *)
(*   SpecPool    several concurrent callers of GetJSONParser and           *)
(*               PutJSONParser, several JSONParser instances.              *)
(* Text is a sequence of one-character strings; a label's Name and Value   *)
(* are represented by their byte lengths, the only thing the validator     *)
(* reads of them.                                                          *)
(***************************************************************************)
EXTENDS Integers, Sequences, FiniteSets, TLC

VARIABLES
    \* ---- package storage ----
    maxLabelsPerTimeseries, \* var maxLabelsPerTimeseries
    maxLabelValueLen,       \* var maxLabelValueLen
    ignored,                \* the three atomic.Uint64 counters, by kind
    tickerC,                \* the three tickers' channels: pending ticks (0 or 1)
    now,                    \* time elapsed since the tickers were created
    logs,                   \* logger.Warnf lines by kind: the times they were written at
    pc,                     \* position of each caller of ExceedingLabels
    labels,                 \* argument of each caller's current (or last) call
    ret,                    \* result of each caller's last returned call
    ncalls,                 \* number of ExceedingLabels calls started
    rejected,               \* callers' tally: calls that have returned true, by kind
    \* ---- package logstorage ----
    Fields,                 \* JSONParser.Fields
    buf,                    \* JSONParser.buf: a slice (array, length)
    prefixBuf,              \* JSONParser.prefixBuf
    heap,                   \* the byte arrays allocated for buf, each of its capacity
    held,                   \* whether the caller holds the parser (Get without Put)
    pooled,                 \* whether parserPool holds the parser
    err,                    \* the error returned by the last parse call
    kept,                   \* the holder's copies of the Fields of its no-reset calls
    stale,                  \* the holder's copies of the Fields it had before its last
                            \* successful reset-mode call, with the text they read then
    nparse,                 \* number of parse calls made
    \* ---- package logstorage, the pool under concurrent callers ----
    parserPool,             \* var parserPool sync.Pool: the instances it holds
    holding,                \* the instance each caller holds (0: none)
    ppc,                    \* position of each caller between Get and Put
    dirty,                  \* per instance allocated: whether it has Fields or bytes
    gotBy,                  \* per instance allocated: the callers it was handed to
    ngets                   \* number of GetJSONParser calls made

vvars == <<maxLabelsPerTimeseries, maxLabelValueLen, ignored, tickerC, now, logs,
           pc, labels, ret, ncalls, rejected>>

pvars == <<Fields, buf, prefixBuf, heap, held, pooled, err, kept, stale, nparse>>

cvars == <<parserPool, holding, ppc, dirty, gotBy, ngets>>

vars == <<vvars, pvars, cvars>>

(***************************************************************************)
(* Bounds of the model.                                                    *)
(***************************************************************************)
MaxLabels == 2      \* longest label set enumerated in SpecLimits
MaxCallsSeq == 1    \* ExceedingLabels calls in a behaviour of SpecLimits
MaxTimeSeq == 5     \* time horizon of SpecLimits
NumCallers == 2     \* concurrent callers in SpecConc
MaxCalls == 2       \* ExceedingLabels calls in a behaviour of SpecConc
MaxTime == 10       \* time horizon of SpecConc
MaxParses == 2      \* parse calls in a behaviour of SpecParser
MaxGets == 3        \* GetJSONParser calls in a behaviour of SpecPool

(***************************************************************************)
(* package storage: limits, counters, tickers.                             *)
(***************************************************************************)
maxLabelNameLen == 256

DefaultMaxLabelsPerTimeseries == 40

DefaultMaxLabelValueLen == 4096

\* time.NewTicker(5 * time.Second): the period, in seconds.
TickerPeriod == 5

Kinds == {"TooManyLabels", "TooLongLabelName", "TooLongLabelValue"}

ignoredSeriesWithTooManyLabels == ignored["TooManyLabels"]

ignoredSeriesWithTooLongLabelName == ignored["TooLongLabelName"]

ignoredSeriesWithTooLongLabelValue == ignored["TooLongLabelValue"]

Callers == 1..NumCallers

\* prompbmarshal.Label, by the lengths of its two strings.
Label(n, v) == [Name |-> n, Value |-> v]

NameLens == {maxLabelNameLen, maxLabelNameLen + 1}

\* The arguments InitLabelsLimits is called with.
InputMaxLabelsPerTimeseries == {1, 2}

InputMaxLabelValueLen == {3}

\* Value lengths at and one above every limit that can be configured.
ValueLens == UNION {{v, v + 1} : v \in InputMaxLabelValueLen \cup {DefaultMaxLabelValueLen}}

AllLabels == {Label(n, v) : n \in NameLens, v \in ValueLens}

SeqsUpTo(S, n) == UNION {[1..k -> S] : k \in 0..n}

\* The label sets one caller may pass in SpecLimits.
LabelSets == SeqsUpTo(AllLabels, MaxLabels)

OkLabel == Label(maxLabelNameLen, 3)

\* The label sets of the concurrent callers: one per outcome, and one that
\* is both too numerous and too long.
SampleLabelSets ==
    { <<OkLabel>>,
      <<OkLabel, OkLabel>>,
      <<Label(maxLabelNameLen + 1, 3)>>,
      <<Label(maxLabelNameLen, 4)>>,
      <<OkLabel, Label(maxLabelNameLen + 1, 4)>> }

\* Faulty variant: the value check accepts only lengths below the limit.
RECURSIVE ScanLabelsValueGE(_, _)
ScanLabelsValueGE(ls, i) ==
    IF i > Len(ls) THEN ""
    ELSE IF ls[i].Name > maxLabelNameLen THEN "TooLongLabelName"
    ELSE IF ls[i].Value >= maxLabelValueLen THEN "TooLongLabelValue"
    ELSE ScanLabelsValueGE(ls, i + 1)

\* Faulty variant: the value check is made before the name check.
RECURSIVE ScanLabelsValueFirst(_, _)
ScanLabelsValueFirst(ls, i) ==
    IF i > Len(ls) THEN ""
    ELSE IF ls[i].Value > maxLabelValueLen THEN "TooLongLabelValue"
    ELSE IF ls[i].Name > maxLabelNameLen THEN "TooLongLabelName"
    ELSE ScanLabelsValueFirst(ls, i + 1)

\* The loop of ExceedingLabels over labels[i..]: the kind of the first
\* violation found, "" when the loop runs to its end.
RECURSIVE ScanLabels(_, _)
ScanLabels(ls, i) ==
    IF i > Len(ls) THEN ""
    ELSE IF ls[i].Name > maxLabelNameLen THEN "TooLongLabelName"
    ELSE IF ls[i].Value > maxLabelValueLen THEN "TooLongLabelValue"
    ELSE ScanLabels(ls, i + 1)

\* Which track... function ExceedingLabels(ls) calls, "" when it calls none.
ExceedingKind(ls) ==
    IF Len(ls) > maxLabelsPerTimeseries THEN "TooManyLabels"
    ELSE ScanLabels(ls, 1)

\* Faulty variant: the counter is incremented only when a line is going to be logged.
AddWhenLogged(k) == IF tickerC[k] > 0 THEN [ignored EXCEPT ![k] = @ + 1] ELSE ignored

\* atomic.Uint64.Add(1) on the counter of kind k. The counter holds at most
\* the number of calls made, far from 2^64, so it never wraps here.
AtomicAdd1(k) == [ignored EXCEPT ![k] = @ + 1]

\* A ticker's channel holds one tick.
TickerChanCap == 1

\* Faulty variant: the channel queues every tick.
TickerSendQueued(n) == n + 1

\* The runtime's side of a ticker: at each period it sends the time on the
\* channel without blocking, so a tick that finds the channel full is dropped.
\* n is the number of ticks pending in the channel.
TickerSend(n) == IF n < TickerChanCap THEN n + 1 ELSE n

ValidatorInit ==
    /\ maxLabelsPerTimeseries = DefaultMaxLabelsPerTimeseries
    /\ maxLabelValueLen = DefaultMaxLabelValueLen
    /\ ignored = [k \in Kinds |-> 0]
    /\ tickerC = [k \in Kinds |-> 0]
    /\ now = 0
    /\ logs = [k \in Kinds |-> <<>>]
    /\ pc = [c \in Callers |-> "idle"]
    /\ labels = [c \in Callers |-> <<>>]
    /\ ret = [c \in Callers |-> FALSE]
    /\ ncalls = 0
    /\ rejected = [k \in Kinds |-> 0]

\* InitLabelsLimits: called in the single-threaded start-up phase, before any
\* ExceedingLabels call.
InitLabelsLimits(inputMaxLabelsPerTimeseries, inputMaxLabelValueLen) ==
    /\ ncalls = 0
    /\ maxLabelsPerTimeseries = DefaultMaxLabelsPerTimeseries
    /\ maxLabelValueLen = DefaultMaxLabelValueLen
    /\ maxLabelsPerTimeseries' = inputMaxLabelsPerTimeseries
    /\ maxLabelValueLen' = inputMaxLabelValueLen
    /\ UNCHANGED <<ignored, tickerC, now, logs, pc, labels, ret, ncalls, rejected>>

\* One second passes; at a multiple of the period the three tickers fire.
Advance(horizon) ==
    /\ now < horizon
    /\ now' = now + 1
    /\ tickerC' = IF (now + 1) % TickerPeriod = 0
                  THEN [k \in Kinds |-> TickerSend(tickerC[k])]
                  ELSE tickerC
    /\ UNCHANGED <<maxLabelsPerTimeseries, maxLabelValueLen, ignored, logs,
                   pc, labels, ret, ncalls, rejected>>

\* Faulty variant: the "return true" after trackIgnoredSeriesWithTooManyLabels is
\* missing: the count is tracked, then the loop decides the result.
ExceedingLabelsFallThrough(c, ls, calls) ==
    /\ pc[c] \in {"idle", "done"}
    /\ ncalls < calls
    /\ ncalls' = ncalls + 1
    /\ labels' = [labels EXCEPT ![c] = ls]
    /\ LET many == Len(ls) > maxLabelsPerTimeseries
           k == ScanLabels(ls, 1)
           counted == IF many THEN AtomicAdd1("TooManyLabels") ELSE ignored
       IN
         IF k = ""
         THEN /\ pc' = [pc EXCEPT ![c] = "done"]
              /\ ret' = [ret EXCEPT ![c] = FALSE]
              /\ ignored' = counted
         ELSE /\ ignored' = [counted EXCEPT ![k] = @ + 1]
              /\ pc' = [pc EXCEPT ![c] = "select"]
              /\ UNCHANGED ret
    /\ UNCHANGED <<maxLabelsPerTimeseries, maxLabelValueLen, tickerC, now, logs,
                   rejected>>

\* ExceedingLabels(ls) by caller c, up to the counter's Add(1) in the
\* track... function it calls, or to "return false".
ExceedingLabels(c, ls, calls) ==
    /\ pc[c] \in {"idle", "done"}
    /\ ncalls < calls
    /\ ncalls' = ncalls + 1
    /\ labels' = [labels EXCEPT ![c] = ls]
    /\ LET k == ExceedingKind(ls) IN
         IF k = ""
         THEN /\ pc' = [pc EXCEPT ![c] = "done"]
              /\ ret' = [ret EXCEPT ![c] = FALSE]
              /\ UNCHANGED ignored
         ELSE /\ ignored' = AtomicAdd1(k)
              /\ pc' = [pc EXCEPT ![c] = "select"]
              /\ UNCHANGED ret
    /\ UNCHANGED <<maxLabelsPerTimeseries, maxLabelValueLen, tickerC, now, logs,
                   rejected>>

\* Faulty variant: the select looks at the pending tick and leaves it in the channel.
TrackSelectPeek(c) ==
    /\ pc[c] = "select"
    /\ LET k == ExceedingKind(labels[c]) IN
         IF tickerC[k] > 0
         THEN logs' = [logs EXCEPT ![k] = Append(@, now)]
         ELSE UNCHANGED logs
    /\ pc' = [pc EXCEPT ![c] = "done"]
    /\ ret' = [ret EXCEPT ![c] = TRUE]
    /\ rejected' = [rejected EXCEPT ![ExceedingKind(labels[c])] = @ + 1]
    /\ UNCHANGED <<maxLabelsPerTimeseries, maxLabelValueLen, ignored, tickerC, now,
                   labels, ncalls>>

\* The select of the track... function caller c is in: a pending tick is
\* received and one line is logged, otherwise the default branch is taken;
\* then ExceedingLabels returns true.
TrackSelect(c) ==
    /\ pc[c] = "select"
    /\ LET k == ExceedingKind(labels[c]) IN
         IF tickerC[k] > 0
         THEN /\ tickerC' = [tickerC EXCEPT ![k] = @ - 1]
              /\ logs' = [logs EXCEPT ![k] = Append(@, now)]
         ELSE UNCHANGED <<tickerC, logs>>
    /\ pc' = [pc EXCEPT ![c] = "done"]
    /\ ret' = [ret EXCEPT ![c] = TRUE]
    /\ rejected' = [rejected EXCEPT ![ExceedingKind(labels[c])] = @ + 1]
    /\ UNCHANGED <<maxLabelsPerTimeseries, maxLabelValueLen, ignored, now,
                   labels, ncalls>>

(***************************************************************************)
(* package logstorage: JSON values as the tokenizer (fastjson) hands them  *)
(* to the parser.  A value is [t, s, kids]: t is its fastjson type name,   *)
(* s the decoded content of a string or the text of a number, kids the     *)
(* members of an object (key k, value v) or the items of an array (v).     *)
(***************************************************************************)
JNull == [t |-> "null", s |-> <<>>, kids |-> <<>>]

JTrue == [t |-> "true", s |-> <<>>, kids |-> <<>>]

JFalse == [t |-> "false", s |-> <<>>, kids |-> <<>>]

JStr(s) == [t |-> "string", s |-> s, kids |-> <<>>]

JNum(s) == [t |-> "number", s |-> s, kids |-> <<>>]

JArr(items) == [t |-> "array", s |-> <<>>,
                kids |-> [i \in 1..Len(items) |-> [k |-> <<>>, v |-> items[i]]]]

\* members: a sequence of <<key, value>> pairs, in the tokenizer's visit order.
JObj(members) == [t |-> "object", s |-> <<>>,
                  kids |-> [i \in 1..Len(members) |->
                              [k |-> members[i][1], v |-> members[i][2]]]]

\* A message is given by what the tokenizer makes of it: text that is not
\* JSON, or the value tree of text that is.
Malformed == [ok |-> FALSE, v |-> JNull]

Json(v) == [ok |-> TRUE, v |-> v]

\* p.p.Parse(msg): the value, or an error.
ParseJSON(msg) == [failed |-> ~msg.ok, v |-> msg.v]

\* escapeString of fastjson: the text between the quotes of a JSON string.
RECURSIVE Escape(_)
Escape(s) ==
    IF s = <<>> THEN <<>>
    ELSE (IF Head(s) \in {"\"", "\\"} THEN <<"\\", Head(s)>> ELSE <<Head(s)>>)
         \o Escape(Tail(s))

Quoted(s) == <<"\"">> \o Escape(s) \o <<"\"">>

\* v.MarshalTo: the JSON text of a value.
RECURSIVE Marshal(_)
RECURSIVE MarshalKids(_, _, _)
Marshal(v) ==
    CASE v.t = "null" -> <<"n", "u", "l", "l">>
      [] v.t = "true" -> <<"t", "r", "u", "e">>
      [] v.t = "false" -> <<"f", "a", "l", "s", "e">>
      [] v.t = "number" -> v.s
      [] v.t = "string" -> Quoted(v.s)
      [] v.t = "array" -> <<"[">> \o MarshalKids(v.kids, 1, FALSE) \o <<"]">>
      [] v.t = "object" -> <<"{">> \o MarshalKids(v.kids, 1, TRUE) \o <<"}">>

MarshalKids(kids, i, withKeys) ==
    IF i > Len(kids) THEN <<>>
    ELSE (IF withKeys THEN Quoted(kids[i].k) \o <<":">> ELSE <<>>)
         \o Marshal(kids[i].v)
         \o (IF i < Len(kids) THEN <<",">> ELSE <<>>)
         \o MarshalKids(kids, i + 1, withKeys)

(***************************************************************************)
(* Byte slices and strings.  heap[a] is the a-th array allocated, as long  *)
(* as its capacity; a slice is (arr, len) and starts at offset 0 of its    *)
(* array, arr = 0 being the nil slice.  A string is a view (arr, off, len) *)
(* of an array (bytesutil.ToUnsafeString) or, with arr = 0, a string of    *)
(* the caller with the text s.                                             *)
(***************************************************************************)
NUL == "NUL"

NilSlice == [arr |-> 0, len |-> 0]

Cap(h, b) == IF b.arr = 0 THEN 0 ELSE Len(h[b.arr])

Bytes(h, b) == IF b.arr = 0 THEN <<>> ELSE SubSeq(h[b.arr], 1, b.len)

ExtString(s) == [arr |-> 0, off |-> 0, len |-> Len(s), s |-> s]

\* dstBuf[from:] as a string.
View(b, from) == [arr |-> b.arr, off |-> from, len |-> b.len - from, s |-> <<>>]

\* The text a string reads now.
Text(h, str) ==
    IF str.arr = 0 THEN str.s ELSE SubSeq(h[str.arr], str.off + 1, str.off + str.len)

\* Name and Value of a Field, as the text they read now.
TextOf(h, f) == [Name |-> Text(h, f.Name), Value |-> Text(h, f.Value)]

\* The capacity append gives a slice it has to reallocate: twice the old one,
\* or what is needed when that is more (the runtime's rule for small slices,
\* without the rounding to an allocation size class).
GrowCap(oldCap, need) == IF need > 2 * oldCap THEN need ELSE 2 * oldCap

\* append(b, bytes...) on hb = [h, b]: in place when the capacity suffices,
\* else into a new array; the old array is left as it is.
GoAppend(hb, bytes) ==
    LET h == hb.h
        b == hb.b
        need == b.len + Len(bytes)
    IN IF bytes = <<>> THEN hb
       ELSE IF need <= Cap(h, b)
       THEN [h |-> [h EXCEPT ![b.arr] =
                        SubSeq(@, 1, b.len) \o bytes \o SubSeq(@, need + 1, Len(@))],
             b |-> [b EXCEPT !.len = need]]
       ELSE [h |-> Append(h, Bytes(h, b) \o bytes
                             \o [i \in 1..(GrowCap(Cap(h, b), need) - need) |-> NUL]),
             b |-> [arr |-> Len(h) + 1, len |-> need]]

(***************************************************************************)
(* Flattening.  st = [dst, h, dstBuf, prefixBuf] is what appendLogFields   *)
(* threads through its calls, with the heap.                               *)
(***************************************************************************)
\* Faulty variant: the name is the key alone, the prefix is left out.
appendLogFieldNoPrefix(st, k, value) ==
    LET dstBufLen == st.dstBuf.len
        a2 == GoAppend([h |-> st.h, b |-> st.dstBuf], k)
        name == View(a2.b, dstBufLen)
    IN [st EXCEPT !.dst = Append(@, [Name |-> name, Value |-> value]),
                  !.h = a2.h,
                  !.dstBuf = a2.b]

appendLogField(st, k, value) ==
    LET dstBufLen == st.dstBuf.len
        a1 == GoAppend([h |-> st.h, b |-> st.dstBuf], st.prefixBuf)
        a2 == GoAppend(a1, k)
        name == View(a2.b, dstBufLen)
    IN [st EXCEPT !.dst = Append(@, [Name |-> name, Value |-> value]),
                  !.h = a2.h,
                  !.dstBuf = a2.b]

\* Faulty variant: the prefix is not truncated when the recursion returns.
RECURSIVE appendLogFieldsNoTruncate(_, _, _)
appendLogFieldsNoTruncate(st, v, i) ==
    IF i > Len(v.kids) THEN st
    ELSE
      LET k == v.kids[i].k
          w == v.kids[i].v
          t == w.t
          after ==
            CASE t = "null" -> st
              [] t = "object" ->
                   appendLogFieldsNoTruncate(
                       [st EXCEPT !.prefixBuf = @ \o k \o <<".">>], w, 1)
              [] t \in {"array", "number", "true", "false"} ->
                   LET dstBufLen == st.dstBuf.len
                       a == GoAppend([h |-> st.h, b |-> st.dstBuf], Marshal(w))
                       value == View(a.b, dstBufLen)
                   IN appendLogField([st EXCEPT !.h = a.h, !.dstBuf = a.b], k, value)
              [] t = "string" ->
                   LET dstBufLen == st.dstBuf.len
                       a == GoAppend([h |-> st.h, b |-> st.dstBuf], w.s)
                       value == View(a.b, dstBufLen)
                   IN appendLogField([st EXCEPT !.h = a.h, !.dstBuf = a.b], k, value)
      IN appendLogFieldsNoTruncate(after, v, i + 1)

\* appendLogFields(dst, dstBuf, prefixBuf, v) from the i-th member of v on:
\* the callback of o.Visit for member i, then the remaining members.
RECURSIVE appendLogFields(_, _, _)
appendLogFields(st, v, i) ==
    IF i > Len(v.kids) THEN st
    ELSE
      LET k == v.kids[i].k
          w == v.kids[i].v
          t == w.t
          after ==
            CASE t = "null" -> st
              [] t = "object" ->
                   LET prefixLen == Len(st.prefixBuf)
                       inner == appendLogFields(
                                    [st EXCEPT !.prefixBuf = @ \o k \o <<".">>], w, 1)
                   IN [inner EXCEPT !.prefixBuf = SubSeq(@, 1, prefixLen)]
              [] t \in {"array", "number", "true", "false"} ->
                   LET dstBufLen == st.dstBuf.len
                       a == GoAppend([h |-> st.h, b |-> st.dstBuf], Marshal(w))
                       value == View(a.b, dstBufLen)
                   IN appendLogField([st EXCEPT !.h = a.h, !.dstBuf = a.b], k, value)
              [] t = "string" ->
                   LET dstBufLen == st.dstBuf.len
                       a == GoAppend([h |-> st.h, b |-> st.dstBuf], w.s)
                       value == View(a.b, dstBufLen)
                   IN appendLogField([st EXCEPT !.h = a.h, !.dstBuf = a.b], k, value)
      IN appendLogFields(after, v, i + 1)

\* The parser as a record, for the methods below.
Parser == [Fields |-> Fields, buf |-> buf, prefixBuf |-> prefixBuf]

\* Faulty variant: resetNobuf truncates buf as reset does.
resetNobufTruncating(p) ==
    [p EXCEPT !.Fields = <<>>, !.prefixBuf = <<>>, !.buf = [@ EXCEPT !.len = 0]]

\* p.resetNobuf()
resetNobuf(p) == [p EXCEPT !.Fields = <<>>, !.prefixBuf = <<>>]

\* Faulty variant: reset leaves buf at its length.
resetKeepingBuf(p) == [p EXCEPT !.Fields = <<>>, !.prefixBuf = <<>>]

\* p.reset()
reset(p) == [resetNobuf(p) EXCEPT !.buf = [@ EXCEPT !.len = 0]]

ErrNil == [msg |-> "", got |-> ""]

ErrCannotParse == [msg |-> "cannot parse json", got |-> ""]

ErrNotObject(t) == [msg |-> "expecting json dictionary", got |-> t]

\* Faulty variant: the parser is reset before the message is parsed and checked.
parseLogMessageResetFirst(p, h, msg, prefix, resetBuf) ==
    LET r == ParseJSON(msg)
        q == IF resetBuf THEN reset(p) ELSE resetNobuf(p)
    IN
    IF r.failed THEN [err |-> ErrCannotParse, p |-> q, h |-> h]
    ELSE IF r.v.t # "object" THEN [err |-> ErrNotObject(r.v.t), p |-> q, h |-> h]
    ELSE
      LET st == appendLogFields(
                    [dst |-> q.Fields, h |-> h, dstBuf |-> q.buf,
                     prefixBuf |-> SubSeq(q.prefixBuf, 1, 0) \o prefix],
                    r.v, 1)
      IN [err |-> ErrNil,
          p |-> [Fields |-> st.dst, buf |-> st.dstBuf, prefixBuf |-> st.prefixBuf],
          h |-> st.h]

\* Faulty variant: the type of the root is not checked: a root that is no object is
\* taken for an object without members.
parseLogMessageNoTypeCheck(p, h, msg, prefix, resetBuf) ==
    LET r == ParseJSON(msg) IN
    IF r.failed THEN [err |-> ErrCannotParse, p |-> p, h |-> h]
    ELSE
      LET q == IF resetBuf THEN reset(p) ELSE resetNobuf(p)
          root == IF r.v.t = "object" THEN r.v ELSE JObj(<<>>)
          st == appendLogFields(
                    [dst |-> q.Fields, h |-> h, dstBuf |-> q.buf,
                     prefixBuf |-> SubSeq(q.prefixBuf, 1, 0) \o prefix],
                    root, 1)
      IN [err |-> ErrNil,
          p |-> [Fields |-> st.dst, buf |-> st.dstBuf, prefixBuf |-> st.prefixBuf],
          h |-> st.h]

\* Faulty variant: the parser is reset once the message is known to be JSON, before
\* the type of the root is checked.
parseLogMessageResetBeforeTypeCheck(p, h, msg, prefix, resetBuf) ==
    LET r == ParseJSON(msg) IN
    IF r.failed THEN [err |-> ErrCannotParse, p |-> p, h |-> h]
    ELSE
      LET q == IF resetBuf THEN reset(p) ELSE resetNobuf(p) IN
      IF r.v.t # "object" THEN [err |-> ErrNotObject(r.v.t), p |-> q, h |-> h]
      ELSE
        LET st == appendLogFields(
                      [dst |-> q.Fields, h |-> h, dstBuf |-> q.buf,
                       prefixBuf |-> SubSeq(q.prefixBuf, 1, 0) \o prefix],
                      r.v, 1)
        IN [err |-> ErrNil,
            p |-> [Fields |-> st.dst, buf |-> st.dstBuf, prefixBuf |-> st.prefixBuf],
            h |-> st.h]

\* p.parseLogMessage(msg, prefix, resetBuf): the error returned and the parser
\* and heap it leaves.
parseLogMessage(p, h, msg, prefix, resetBuf) ==
    LET r == ParseJSON(msg) IN
    IF r.failed THEN [err |-> ErrCannotParse, p |-> p, h |-> h]
    ELSE IF r.v.t # "object" THEN [err |-> ErrNotObject(r.v.t), p |-> p, h |-> h]
    ELSE
      LET q == IF resetBuf THEN reset(p) ELSE resetNobuf(p)
          st == appendLogFields(
                    [dst |-> q.Fields, h |-> h, dstBuf |-> q.buf,
                     prefixBuf |-> SubSeq(q.prefixBuf, 1, 0) \o prefix],
                    r.v, 1)
      IN [err |-> ErrNil,
          p |-> [Fields |-> st.dst, buf |-> st.dstBuf, prefixBuf |-> st.prefixBuf],
          h |-> st.h]

\* Faulty variant: the loop does not return at the first match.
RECURSIVE renameFromAll(_, _, _, _, _)
renameFromAll(fields, h, i, oldName, newName) ==
    IF i > Len(fields) THEN fields
    ELSE IF Text(h, fields[i].Name) = oldName
    THEN renameFromAll([fields EXCEPT ![i].Name = ExtString(newName)],
                       h, i + 1, oldName, newName)
    ELSE renameFromAll(fields, h, i + 1, oldName, newName)

\* The loop of RenameField from field i on.
RECURSIVE renameFrom(_, _, _, _, _)
renameFrom(fields, h, i, oldName, newName) ==
    IF i > Len(fields) THEN fields
    ELSE IF Text(h, fields[i].Name) = oldName
    THEN [fields EXCEPT ![i].Name = ExtString(newName)]
    ELSE renameFrom(fields, h, i + 1, oldName, newName)

renameField(fields, h, oldName, newName) ==
    IF oldName = <<>> THEN fields
    ELSE renameFrom(fields, h, 1, oldName, newName)

ParserInit ==
    /\ Fields = <<>>
    /\ buf = NilSlice
    /\ prefixBuf = <<>>
    /\ heap = <<>>
    /\ held = FALSE
    /\ pooled = FALSE
    /\ err = ErrNil
    /\ kept = <<>>
    /\ stale = <<>>
    /\ nparse = 0

\* GetJSONParser: the parser of the pool, or a new one when the pool is empty.
GetJSONParser ==
    /\ ~held
    /\ held' = TRUE
    /\ pooled' = FALSE
    /\ IF pooled
       THEN UNCHANGED <<Fields, buf, prefixBuf, heap>>
       ELSE /\ Fields' = <<>>
            /\ buf' = NilSlice
            /\ prefixBuf' = <<>>
            /\ heap' = <<>>
    /\ UNCHANGED <<err, kept, stale, nparse>>

\* Faulty variant: the parser is put into the pool as the holder left it.
PutJSONParserNoReset ==
    /\ held
    /\ held' = FALSE
    /\ pooled' = TRUE
    /\ kept' = <<>>
    /\ stale' = <<>>
    /\ UNCHANGED <<Fields, buf, prefixBuf, heap, err, nparse>>

\* PutJSONParser(p). The holder gives up the parser and its copies of Fields;
\* arrays that nothing refers to any more are dropped.
PutJSONParser ==
    /\ held
    /\ LET q == reset(Parser) IN
         /\ Fields' = q.Fields
         /\ prefixBuf' = q.prefixBuf
         /\ buf' = IF q.buf.arr = 0 THEN q.buf ELSE [q.buf EXCEPT !.arr = 1]
         /\ heap' = IF q.buf.arr = 0 THEN <<>> ELSE <<heap[q.buf.arr]>>
    /\ held' = FALSE
    /\ pooled' = TRUE
    /\ kept' = <<>>
    /\ stale' = <<>>
    /\ UNCHANGED <<err, nparse>>

\* The runtime empties a sync.Pool at garbage collection.
PoolCleanup ==
    /\ pooled
    /\ pooled' = FALSE
    /\ UNCHANGED <<Fields, buf, prefixBuf, heap, held, err, kept, stale, nparse>>

\* The Fields as the holder has them now: each with the text it reads.
Snapshot(h, fields) == [i \in 1..Len(fields) |-> [f |-> fields[i], was |-> TextOf(h, fields[i])]]

\* p.ParseLogMessage(msg, prefix)
ParseLogMessage(msg, prefix) ==
    /\ held
    /\ nparse < MaxParses
    /\ nparse' = nparse + 1
    /\ LET r == parseLogMessage(Parser, heap, msg, prefix, TRUE) IN
         /\ err' = r.err
         /\ Fields' = r.p.Fields
         /\ buf' = r.p.buf
         /\ prefixBuf' = r.p.prefixBuf
         /\ heap' = r.h
         /\ kept' = IF r.err = ErrNil THEN <<>> ELSE kept
         /\ stale' = IF r.err = ErrNil THEN Snapshot(heap, Fields) ELSE stale
    /\ UNCHANGED <<held, pooled>>

\* p.ParseLogMessageNoResetBuf(msg, prefix); the holder keeps a copy of the
\* Fields it got.
ParseLogMessageNoResetBuf(msg, prefix) ==
    /\ held
    /\ nparse < MaxParses
    /\ nparse' = nparse + 1
    /\ LET r == parseLogMessage(Parser, heap, msg, prefix, FALSE) IN
         /\ err' = r.err
         /\ Fields' = r.p.Fields
         /\ buf' = r.p.buf
         /\ prefixBuf' = r.p.prefixBuf
         /\ heap' = r.h
         /\ kept' = IF r.err = ErrNil THEN kept \o r.p.Fields ELSE kept
    /\ UNCHANGED <<held, pooled, stale>>

\* p.RenameField(oldName, newName)
RenameField(oldName, newName) ==
    /\ held
    /\ Fields' = renameField(Fields, heap, oldName, newName)
    /\ UNCHANGED <<buf, prefixBuf, heap, held, pooled, err, kept, stale, nparse>>

(***************************************************************************)
(* The pool under concurrent callers.  A JSONParser instance is a number   *)
(* 1, 2, ... in the order of allocation; parserPool is the sequence of the *)
(* instances put into it and not taken out since.                          *)
(***************************************************************************)
PoolInit ==
    /\ parserPool = <<>>
    /\ holding = [c \in Callers |-> 0]
    /\ ppc = [c \in Callers |-> "idle"]
    /\ dirty = <<>>
    /\ gotBy = <<>>
    /\ ngets = 0

\* s without its i-th element.
RemoveAt(s, i) == SubSeq(s, 1, i - 1) \o SubSeq(s, i + 1, Len(s))

\* Faulty variant: parserPool.Get() hands out an instance and leaves it in the pool.
GetJSONParserByKeepingItem(c) ==
    /\ ppc[c] = "idle"
    /\ ngets < MaxGets
    /\ ngets' = ngets + 1
    /\ ppc' = [ppc EXCEPT ![c] = "holding"]
    /\ \/ \E i \in 1..Len(parserPool) :
             /\ holding' = [holding EXCEPT ![c] = parserPool[i]]
             /\ gotBy' = [gotBy EXCEPT ![parserPool[i]] = @ \cup {c}]
             /\ UNCHANGED <<parserPool, dirty>>
       \/ /\ holding' = [holding EXCEPT ![c] = Len(dirty) + 1]
          /\ dirty' = Append(dirty, FALSE)
          /\ gotBy' = Append(gotBy, {c})
          /\ UNCHANGED parserPool

\* GetJSONParser() by caller c: parserPool.Get() takes an instance out of the
\* pool and returns it, or returns nil, which it may do whatever the pool
\* holds, and then a new JSONParser is allocated.
GetJSONParserBy(c) ==
    /\ ppc[c] = "idle"
    /\ ngets < MaxGets
    /\ ngets' = ngets + 1
    /\ ppc' = [ppc EXCEPT ![c] = "holding"]
    /\ \/ \E i \in 1..Len(parserPool) :
             /\ holding' = [holding EXCEPT ![c] = parserPool[i]]
             /\ parserPool' = RemoveAt(parserPool, i)
             /\ gotBy' = [gotBy EXCEPT ![parserPool[i]] = @ \cup {c}]
             /\ UNCHANGED dirty
       \/ /\ holding' = [holding EXCEPT ![c] = Len(dirty) + 1]
          /\ dirty' = Append(dirty, FALSE)
          /\ gotBy' = Append(gotBy, {c})
          /\ UNCHANGED parserPool

\* A parse call by caller c on the instance it holds.
UseParserBy(c) ==
    /\ ppc[c] = "holding"
    /\ dirty' = [dirty EXCEPT ![holding[c]] = TRUE]
    /\ UNCHANGED <<parserPool, holding, ppc, gotBy, ngets>>

\* PutJSONParser(p) by caller c, its first statement: p.reset().
PutJSONParserResetBy(c) ==
    /\ ppc[c] = "holding"
    /\ dirty' = [dirty EXCEPT ![holding[c]] = FALSE]
    /\ ppc' = [ppc EXCEPT ![c] = "reset"]
    /\ UNCHANGED <<parserPool, holding, gotBy, ngets>>

\* PutJSONParser(p) by caller c, its second statement: parserPool.Put(p).
\* The caller does not use p afterwards.
PutJSONParserPutBy(c) ==
    /\ ppc[c] = "reset"
    /\ parserPool' = Append(parserPool, holding[c])
    /\ holding' = [holding EXCEPT ![c] = 0]
    /\ ppc' = [ppc EXCEPT ![c] = "idle"]
    /\ UNCHANGED <<dirty, gotBy, ngets>>

\* The runtime empties a sync.Pool at garbage collection.
ParserPoolCleanup ==
    /\ parserPool # <<>>
    /\ parserPool' = <<>>
    /\ UNCHANGED <<holding, ppc, dirty, gotBy, ngets>>

(***************************************************************************)
(* The inputs of the parser.                                               *)
(***************************************************************************)
Prefixes == {<<>>, <<"p", ".">>}

OldNames == {<<>>, <<"a">>, <<"a", ".", "b">>, <<"q">>}

NewNames == {<<"q">>}

SampleArray == JArr(<<JNum(<<"1">>), JStr(<<"c", "\"">>)>>)

\* {}, {"a":"c"}, {"":"c","a":""},
\* {"a":{"b":"c"},"d":1,"e":null,"f":[1,"c\""],"g":true},
\* {"a.b":1,"a":{"b":2}} and
\* {"a":{"b":{"c":null},"d":{},"a":"\""},"b":false}.
ObjectMsgs ==
    { Json(JObj(<<>>)),
      Json(JObj(<< <<<<"a">>, JStr(<<"c">>)>> >>)),
      Json(JObj(<< <<<<>>, JStr(<<"c">>)>>, <<<<"a">>, JStr(<<>>)>> >>)),
      Json(JObj(<< <<<<"a">>, JObj(<< <<<<"b">>, JStr(<<"c">>)>> >>)>>,
                   <<<<"d">>, JNum(<<"1">>)>>,
                   <<<<"e">>, JNull>>,
                   <<<<"f">>, SampleArray>>,
                   <<<<"g">>, JTrue>> >>)),
      Json(JObj(<< <<<<"a", ".", "b">>, JNum(<<"1">>)>>,
                   <<<<"a">>, JObj(<< <<<<"b">>, JNum(<<"2">>)>> >>)>> >>)),
      Json(JObj(<< <<<<"a">>, JObj(<< <<<<"b">>, JObj(<< <<<<"c">>, JNull>> >>)>>,
                                       <<<<"d">>, JObj(<<>>)>>,
                                       <<<<"a">>, JStr(<<"\"">>)>> >>)>>,
                   <<<<"b">>, JFalse>> >>)) }

\* Valid JSON whose root is not an object, one message per type.
NonObjectMsgs ==
    { Json(SampleArray), Json(JStr(<<"c">>)), Json(JNum(<<"1">>)),
      Json(JTrue), Json(JFalse), Json(JNull) }

Msgs == {Malformed} \cup NonObjectMsgs \cup ObjectMsgs

\* The state after package initialisation.
Init == ValidatorInit /\ ParserInit /\ PoolInit

LimitInputs == InputMaxLabelsPerTimeseries \X InputMaxLabelValueLen

NextLimits ==
    \/ UNCHANGED <<pvars, cvars>> /\ \E lim \in LimitInputs : InitLabelsLimits(lim[1], lim[2])
    \/ UNCHANGED <<pvars, cvars>> /\ Advance(MaxTimeSeq)
    \/ UNCHANGED <<pvars, cvars>> /\ \E ls \in LabelSets : ExceedingLabels(1, ls, MaxCallsSeq)
    \/ UNCHANGED <<pvars, cvars>> /\ TrackSelect(1)

SpecLimits == Init /\ [][NextLimits]_vars

NextConc ==
    \/ UNCHANGED <<pvars, cvars>> /\ \E lim \in LimitInputs : InitLabelsLimits(lim[1], lim[2])
    \/ UNCHANGED <<pvars, cvars>> /\ Advance(MaxTime)
    \/ UNCHANGED <<pvars, cvars>> /\ \E c \in Callers, ls \in SampleLabelSets :
                                         ExceedingLabels(c, ls, MaxCalls)
    \/ UNCHANGED <<pvars, cvars>> /\ \E c \in Callers : TrackSelect(c)

SpecConc == Init /\ [][NextConc]_vars

NextParser ==
    \/ UNCHANGED <<vvars, cvars>> /\ GetJSONParser
    \/ UNCHANGED <<vvars, cvars>> /\ PutJSONParser
    \/ UNCHANGED <<vvars, cvars>> /\ PoolCleanup
    \/ UNCHANGED <<vvars, cvars>> /\ \E msg \in Msgs, prefix \in Prefixes :
                                         ParseLogMessage(msg, prefix)
    \/ UNCHANGED <<vvars, cvars>> /\ \E msg \in Msgs, prefix \in Prefixes :
                                         ParseLogMessageNoResetBuf(msg, prefix)
    \/ UNCHANGED <<vvars, cvars>> /\ \E oldName \in OldNames, newName \in NewNames :
                                         RenameField(oldName, newName)

SpecParser == Init /\ [][NextParser]_vars

NextPool ==
    \/ UNCHANGED <<vvars, pvars>> /\ \E c \in Callers : GetJSONParserBy(c)
    \/ UNCHANGED <<vvars, pvars>> /\ \E c \in Callers : UseParserBy(c)
    \/ UNCHANGED <<vvars, pvars>> /\ \E c \in Callers : PutJSONParserResetBy(c)
    \/ UNCHANGED <<vvars, pvars>> /\ \E c \in Callers : PutJSONParserPutBy(c)
    \/ UNCHANGED <<vvars, pvars>> /\ ParserPoolCleanup

SpecPool == Init /\ [][NextPool]_vars

(***************************************************************************)
(* Claims about ExceedingLabels.                                           *)
(***************************************************************************)
\* Whether the label set ls breaks one of the three limits, as the contract
\* states it.
Exceeds(ls) ==
    \/ Len(ls) > maxLabelsPerTimeseries
    \/ \E i \in 1..Len(ls) : ls[i].Name > maxLabelNameLen
    \/ \E i \in 1..Len(ls) : ls[i].Value > maxLabelValueLen

\* The kind the contract assigns to a rejected label set: the count first,
\* then the first offending label, its name before its value.
FirstOffender(ls) ==
    CHOOSE i \in 1..Len(ls) :
        /\ ls[i].Name > maxLabelNameLen \/ ls[i].Value > maxLabelValueLen
        /\ \A j \in 1..(i - 1) :
              ls[j].Name <= maxLabelNameLen /\ ls[j].Value <= maxLabelValueLen

ViolationKind(ls) ==
    IF Len(ls) > maxLabelsPerTimeseries THEN "TooManyLabels"
    ELSE IF ls[FirstOffender(ls)].Name > maxLabelNameLen THEN "TooLongLabelName"
    ELSE "TooLongLabelValue"

\* A step that is a whole ExceedingLabels call returning false: a call is
\* started, nobody enters a track... function, and a caller that was outside
\* a call is outside again with the result false.
FalseReturnStep ==
    /\ ncalls' = ncalls + 1
    /\ \A c \in Callers : pc'[c] = "select" => pc[c] = "select"
    /\ \E c \in Callers : pc[c] \in {"idle", "done"} /\ pc'[c] = "done" /\ ~ret'[c]

\* C1: a returned ExceedingLabels call returned true if and only if the label
\* count is above maxLabelsPerTimeseries, or a name is longer than
\* maxLabelNameLen, or a value is longer than maxLabelValueLen; a call that is
\* still in its track... function is on its way to returning true.
C1_ExceedingIffOverLimit ==
    \A c \in Callers :
        /\ pc[c] = "done" => (ret[c] <=> Exceeds(labels[c]))
        /\ pc[c] = "select" => Exceeds(labels[c])

\* C1 witness: a rejected set whose count and names are exactly at their
\* limits and whose only fault is one value one byte above maxLabelValueLen.
C1_Witness ==
    /\ pc[1] = "done" /\ ret[1]
    /\ Len(labels[1]) = maxLabelsPerTimeseries
    /\ \A i \in 1..Len(labels[1]) : labels[1][i].Name = maxLabelNameLen
    /\ \E i \in 1..Len(labels[1]) : labels[1][i].Value = maxLabelValueLen + 1
    /\ \A i \in 1..Len(labels[1]) : labels[1][i].Value <= maxLabelValueLen + 1
    /\ ignored = [k \in Kinds |-> IF k = "TooLongLabelValue" THEN 1 ELSE 0]

\* C2: the step in which a call finds a violation adds exactly 1 to the
\* counter of the kind the contract names and leaves the other two alone; no
\* other step changes a counter, and a call returns true only out of its
\* track... function.
C2_OneCounterPerRejection ==
    [][ /\ \A c \in Callers :
              (pc'[c] = "select" /\ pc[c] # "select") =>
                  /\ Exceeds(labels'[c])
                  /\ ignored' = [ignored EXCEPT ![ViolationKind(labels'[c])] = @ + 1]
        /\ (\A c \in Callers : pc'[c] = "select" => pc[c] = "select") =>
              ignored' = ignored
        /\ \A c \in Callers :
              (pc'[c] = "done" /\ ret'[c] /\ (pc[c] # "done" \/ ~ret[c])) =>
                  pc[c] = "select"
      ]_vars

\* C2 witness: a returned rejection of a set whose first label has only a too
\* long value and whose second label has a too long name: the value counter
\* was incremented, the name counter was not.
C2_Witness ==
    /\ pc[1] = "done" /\ ret[1]
    /\ Len(labels[1]) = 2 /\ maxLabelsPerTimeseries = 2
    /\ labels[1][1].Name <= maxLabelNameLen
    /\ labels[1][1].Value > maxLabelValueLen
    /\ labels[1][2].Name > maxLabelNameLen
    /\ ignored = [k \in Kinds |-> IF k = "TooLongLabelValue" THEN 1 ELSE 0]

\* C3: when no caller is inside ExceedingLabels, each counter equals the
\* number of calls that returned true for that kind.
C3_CountersExact ==
    (\A c \in Callers : pc[c] # "select") => ignored = rejected

\* C3 witness: all calls have returned, two callers were rejected for the
\* same kind, and only one of the rejections was logged.
C3_Witness ==
    /\ \A c \in Callers : pc[c] = "done" /\ ret[c]
    /\ \E k \in Kinds : ignored[k] >= 2 /\ Len(logs[k]) = 1

\* C4 (as stated): two log lines of one kind are never less than one ticker
\* period apart.
C4_AtMostOncePerInterval ==
    \A k \in Kinds : \A i, j \in 1..Len(logs[k]) :
        i < j => logs[k][j] - logs[k][i] >= TickerPeriod

\* C4 (amended): at most one log line of a kind is written between two
\* consecutive ticks of its ticker: two lines of one kind always lie in
\* different periods [n * TickerPeriod, (n + 1) * TickerPeriod).
C4_AtMostOncePerTick ==
    \A k \in Kinds : \A i, j \in 1..Len(logs[k]) :
        i < j => logs[k][i] \div TickerPeriod < logs[k][j] \div TickerPeriod

\* C4 witness: a tick left pending was consumed late, and the next line of the
\* same kind came less than one period after it.
C4_Witness ==
    \E k \in Kinds :
        /\ Len(logs[k]) >= 2
        /\ logs[k][1] % TickerPeriod # 0
        /\ logs[k][2] - logs[k][1] < TickerPeriod

\* C5: a call that returns false changes no counter, writes no log line and
\* leaves every ticker channel as it was.
C5_FalseHasNoSideEffects ==
    [][FalseReturnStep => UNCHANGED <<ignored, logs, tickerC>>]_vars

\* C5 witness: caller 1 made both calls. Its first call was rejected and
\* logged with the tick it consumed; its second call then returned false while
\* the ticks of the two other kinds were pending, and they still are.
C5_Witness ==
    /\ ncalls = 2 /\ pc[1] = "done" /\ ~ret[1] /\ ~Exceeds(labels[1])
    /\ \A c \in Callers \ {1} : pc[c] = "idle"
    /\ \E k \in Kinds :
          /\ ignored[k] = 1 /\ Len(logs[k]) = 1 /\ tickerC[k] = 0
          /\ \A j \in Kinds \ {k} : tickerC[j] = 1 /\ ignored[j] = 0

(***************************************************************************)
(* Claims about JSONParser.                                                *)
(***************************************************************************)
\* Name and Value of the current Fields, as the text they read.
FieldTexts == [i \in 1..Len(Fields) |-> TextOf(heap, Fields[i])]

\* A step that is a parse call, in either mode, of msg with prefix.
ParseStep(msg, prefix) ==
    ParseLogMessage(msg, prefix) \/ ParseLogMessageNoResetBuf(msg, prefix)

\* The keys of a path joined with '.'.
RECURSIVE JoinDot(_)
JoinDot(keys) ==
    IF keys = <<>> THEN <<>>
    ELSE IF Len(keys) = 1 THEN keys[1]
    ELSE keys[1] \o <<".">> \o JoinDot(Tail(keys))

\* The values of object v that are neither null nor an object and are reached
\* through nested objects only, each with the keys on its path, in visit order.
RECURSIVE LeavesOf(_, _, _)
LeavesOf(v, path, i) ==
    IF i > Len(v.kids) THEN <<>>
    ELSE LET k == v.kids[i].k
             w == v.kids[i].v
         IN (CASE w.t = "null" -> <<>>
               [] w.t = "object" -> LeavesOf(w, Append(path, k), 1)
               [] OTHER -> << [path |-> Append(path, k), v |-> w] >>)
            \o LeavesOf(v, path, i + 1)

\* The Fields the contract asks of a successful parse.
Flattened(prefix, v) ==
    LET leaves == LeavesOf(v, <<>>, 1) IN
    [i \in 1..Len(leaves) |->
        [Name |-> prefix \o JoinDot(leaves[i].path),
         Value |-> IF leaves[i].v.t = "string" THEN leaves[i].v.s
                   ELSE Marshal(leaves[i].v)]]

\* C6: after a successful parse of an object with a prefix, Fields reads
\* exactly as the flattening of the object: one Field per value that is
\* neither null nor an object, in visit order, named by the prefix and the
\* dotted path, strings decoded and the rest serialized; colliding names are
\* all kept.
C6_FieldsAreTheFlattening ==
    [][ \A msg \in Msgs, prefix \in Prefixes :
            (ParseStep(msg, prefix) /\ err' = ErrNil) =>
                FieldTexts' = Flattened(prefix, msg.v)
      ]_vars

\* C6 witness: the parse of {"a.b":1,"a":{"b":2}} with prefix "p." gave two
\* Fields that are both named p.a.b.
C6_Witness ==
    /\ err = ErrNil
    /\ FieldTexts = << [Name |-> <<"p", ".", "a", ".", "b">>, Value |-> <<"1">>],
                       [Name |-> <<"p", ".", "a", ".", "b">>, Value |-> <<"2">>] >>

\* C7 (as stated): a parse call on text that is not JSON returns an error and
\* leaves Fields empty.
C7_FailedParseClearsFields ==
    [][ \A prefix \in Prefixes :
            ParseStep(Malformed, prefix) => (err' = ErrCannotParse /\ Fields' = <<>>)
      ]_vars

\* C7 (amended): a parse call on text that is not JSON returns an error and
\* leaves the parser as it was: Fields, the backing buffer and the prefix
\* buffer are unchanged, so no Field of the failed call appears and the Fields
\* of the earlier call stay.
C7_FailedParseLeavesState ==
    [][ \A prefix \in Prefixes :
            ParseStep(Malformed, prefix) =>
                /\ err' = ErrCannotParse
                /\ UNCHANGED <<Fields, buf, prefixBuf, heap>>
      ]_vars

\* C7 witness: the last call failed on text that is not JSON, and the Fields
\* of the successful call before it are still there.
C7_Witness ==
    /\ err = ErrCannotParse
    /\ nparse = 2
    /\ Len(Fields) > 0
    /\ \E i \in 1..Len(Fields) : FieldTexts[i].Value = <<"c">>

\* C8: a parse call, in either mode, returns no error exactly when the message
\* is JSON with an object as root; for JSON with another root the error
\* carries the type of the root.
C8_ErrorIffNotObject ==
    [][ \A msg \in Msgs, prefix \in Prefixes :
            ParseStep(msg, prefix) =>
                /\ err' = ErrNil <=> (msg.ok /\ msg.v.t = "object")
                /\ (msg.ok /\ msg.v.t # "object") =>
                       (err'.msg = "expecting json dictionary" /\ err'.got = msg.v.t)
      ]_vars

\* C8 witness: the first parse call was made on a JSON array and returned the
\* error that names the type array.
C8_Witness ==
    /\ err = ErrNotObject("array")
    /\ nparse = 1
    /\ held

\* The fields whose Name reads name.
Named(name) == {i \in 1..Len(Fields) : Text(heap, Fields[i].Name) = name}

Min(S) == CHOOSE x \in S : \A y \in S : x <= y

\* C9: RenameField(oldName, newName) gives the name newName to the first
\* Field named oldName and to no other; with an empty oldName or no Field of
\* that name it changes nothing. The number and order of Fields, every Value,
\* every other Name and the buffers stay.
C9_RenameFirstOnly ==
    [][ \A oldName \in OldNames, newName \in NewNames :
            RenameField(oldName, newName) =>
                /\ UNCHANGED <<buf, prefixBuf, heap>>
                /\ IF oldName = <<>> \/ Named(oldName) = {}
                   THEN Fields' = Fields
                   ELSE /\ Len(Fields') = Len(Fields)
                        /\ \A i \in 1..Len(Fields) :
                              /\ Fields'[i].Value = Fields[i].Value
                              /\ i = Min(Named(oldName)) =>
                                    Text(heap', Fields'[i].Name) = newName
                              /\ i # Min(Named(oldName)) =>
                                    Fields'[i].Name = Fields[i].Name
      ]_vars

\* C9 witness: of two Fields named a.b, the first was renamed to q and the
\* second is still named a.b.
C9_Witness ==
    FieldTexts = << [Name |-> <<"q">>, Value |-> <<"1">>],
                    [Name |-> <<"a", ".", "b">>, Value |-> <<"2">>] >>

IsPrefix(s, t) == Len(s) <= Len(t) /\ SubSeq(t, 1, Len(s)) = s

\* C10: a ParseLogMessageNoResetBuf call, successful or not, only appends to
\* the backing buffer, and every Field the holder got from its earlier
\* no-reset calls reads the same name and value after the call as before.
C10_NoResetKeepsEarlierFields ==
    [][ \A msg \in Msgs, prefix \in Prefixes :
            ParseLogMessageNoResetBuf(msg, prefix) =>
                /\ IsPrefix(Bytes(heap, buf), Bytes(heap', buf'))
                /\ \A i \in 1..Len(kept) : TextOf(heap', kept[i]) = TextOf(heap, kept[i])
      ]_vars

\* C10 witness: two successful no-reset calls were made; the holder has the
\* Fields of both, the buffer moved to a larger array in between, and the
\* Fields of the first call still read a.b = c.
C10_Witness ==
    /\ nparse = 2 /\ err = ErrNil
    /\ Len(Fields) > 0 /\ Len(kept) > Len(Fields)
    /\ TextOf(heap, kept[1]) = [Name |-> <<"a", ".", "b">>, Value |-> <<"c">>]
    /\ kept[1].Name.arr # buf.arr

\* A step in which GetJSONParser hands the parser to a caller.
GetStep == ~held /\ held'

\* C11: whatever was done with the parser before, the parser GetJSONParser
\* hands out, new or taken from the pool, has no Fields, a backing buffer of
\* length zero and a prefix buffer of length zero.
C11_GetYieldsEmptyParser ==
    [][GetStep => (Fields' = <<>> /\ buf'.len = 0 /\ prefixBuf' = <<>>)]_vars

\* C11 witness: the parser in hand came out of the pool: its one parse call
\* succeeded and filled the array buf still has, and then it was put back and
\* handed out again with no Fields and nothing in its two buffers.
C11_Witness ==
    /\ held /\ nparse = 1 /\ err = ErrNil
    /\ Fields = <<>> /\ buf.len = 0 /\ prefixBuf = <<>>
    /\ buf.arr # 0 /\ heap[buf.arr][1] # NUL

(***************************************************************************)
(* Claims about the pool under concurrent callers.                         *)
(***************************************************************************)
\* The callers that hold instance x: they got it and have not put it back.
HoldersOf(x) == {c \in Callers : holding[c] = x}

\* C12: with callers that get a parser with GetJSONParser, put it back at most
\* once and do not use it afterwards, no instance is held by two callers at
\* the same time under any interleaving of their Get and Put calls, and an
\* instance that is held is not in the pool.
C12_NoParserHeldTwice ==
    \A x \in 1..Len(dirty) :
        /\ Cardinality(HoldersOf(x)) <= 1
        /\ HoldersOf(x) # {} => \A i \in 1..Len(parserPool) : parserPool[i] # x

\* C12 witness: two callers hold a parser at the same time; one of the two
\* instances went through the pool and has been handed to both callers, one
\* after the other.
C12_Witness ==
    /\ \A c \in Callers : c <= 2 => ppc[c] = "holding"
    /\ holding[1] # holding[2]
    /\ gotBy[holding[2]] = {1, 2}

(***************************************************************************)
(* Claims about the buffers of JSONParser.                                 *)
(***************************************************************************)
\* The members of object v, at any depth, that are objects themselves, in visit
\* order: each with its key k and with pb, the prefix buffer its enclosing
\* object is flattened with when pb0 is the one v is flattened with.
RECURSIVE NestedMembers(_, _, _)
NestedMembers(v, pb0, i) ==
    IF i > Len(v.kids) THEN <<>>
    ELSE LET k == v.kids[i].k
             w == v.kids[i].v
         IN (IF w.t = "object"
             THEN << [pb |-> pb0, k |-> k, v |-> w] >>
                  \o NestedMembers(w, pb0 \o k \o <<".">>, 1)
             ELSE <<>>)
            \o NestedMembers(v, pb0, i + 1)

\* The prefix buffer after the visit of the one member (k, w), entered with
\* the prefix buffer pb.
PrefixAfterMember(pb, k, w) ==
    appendLogFields([dst |-> <<>>, h |-> <<>>, dstBuf |-> NilSlice, prefixBuf |-> pb],
                    [t |-> "object", s |-> <<>>, kids |-> << [k |-> k, v |-> w] >>],
                    1).prefixBuf

\* C13: in a successful parse, the visit of every nested object, at any
\* depth, leaves the prefix buffer as it found it; every Field, also one
\* that follows a nested object, is named by the given prefix and the dotted
\* keys of its own path; and the call leaves exactly the given prefix in the
\* prefix buffer.
C13_PrefixPushPop ==
    [][ \A msg \in Msgs, prefix \in Prefixes :
            (ParseStep(msg, prefix) /\ err' = ErrNil) =>
                /\ prefixBuf' = prefix
                /\ LET nested == NestedMembers(msg.v, prefix, 1) IN
                     \A n \in 1..Len(nested) :
                         PrefixAfterMember(nested[n].pb, nested[n].k, nested[n].v)
                             = nested[n].pb
                /\ LET leaves == LeavesOf(msg.v, <<>>, 1) IN
                     /\ Len(Fields') = Len(leaves)
                     /\ \A n \in 1..Len(leaves) :
                           Text(heap', Fields'[n].Name) = prefix \o JoinDot(leaves[n].path)
      ]_vars

\* C13 witness: {"a":{"b":{"c":null},"d":{},"a":"\""},"b":false} was parsed
\* with the prefix "p.": the Field after the two objects nested in a is named
\* p.a.a, the Field after a is named p.b, and the prefix buffer holds p. again.
C13_Witness ==
    /\ err = ErrNil /\ nparse > 0
    /\ prefixBuf = <<"p", ".">>
    /\ [i \in 1..Len(Fields) |-> FieldTexts[i].Name]
           = << <<"p", ".", "a", ".", "a">>, <<"p", ".", "b">> >>

(***************************************************************************)
(* Claims about the ticks of the log tickers.                              *)
(***************************************************************************)
\* The ticks a ticker created at time 0 has fired up to now.
TicksFired == now \div TickerPeriod

\* The callers that leave the select of their track... function in this step.
Selecting == {c \in Callers : pc[c] = "select" /\ pc'[c] = "done"}

\* C14: for every kind, the log lines written and the tick pending in the
\* channel are together never more than the ticks the ticker has fired; and
\* a step that takes a tick out of a channel or writes a log line is the
\* select of exactly one caller, whose violation is of that kind: it takes one
\* tick, writes one line, and leaves the channels and logs of the other kinds
\* and all counters alone. So between two consecutive ticks at most one line
\* of a kind is written, however many violations of the kind are counted.
C14_OneLogLinePerTick ==
    /\ [](\A k \in Kinds : Len(logs[k]) + tickerC[k] <= TicksFired)
    /\ [](\A k \in Kinds : \A n \in 0..TicksFired :
            Cardinality({i \in 1..Len(logs[k]) : logs[k][i] \div TickerPeriod = n}) <= 1)
    /\ [][ \A k \in Kinds :
              (tickerC'[k] < tickerC[k] \/ logs'[k] # logs[k]) =>
                  /\ tickerC'[k] = tickerC[k] - 1
                  /\ logs'[k] = Append(logs[k], now)
                  /\ \E c \in Callers :
                        /\ Selecting = {c}
                        /\ Exceeds(labels[c]) /\ ViolationKind(labels[c]) = k
                  /\ \A j \in Kinds \ {k} : tickerC'[j] = tickerC[j] /\ logs'[j] = logs[j]
                  /\ ignored' = ignored
         ]_vars

\* C14 witness: before the second tick, two callers have been rejected for the
\* same kind: its counter is 2, its one tick was taken by one of them, who
\* wrote the one log line, and the ticks of the two other kinds are still in
\* their channels.
C14_Witness ==
    /\ now \in TickerPeriod..(2 * TickerPeriod - 1)
    /\ \A c \in Callers : c <= 2 => (pc[c] = "done" /\ ret[c])
    /\ \E k \in Kinds :
          /\ ignored[k] = 2 /\ rejected[k] = 2
          /\ Len(logs[k]) = 1 /\ tickerC[k] = 0
          /\ \A j \in Kinds \ {k} : tickerC[j] = 1 /\ logs[j] = <<>>

\* The text of fields[i..], each Field as its value followed by its name.
RECURSIVE ValueNameText(_, _)
ValueNameText(texts, i) ==
    IF i > Len(texts) THEN <<>>
    ELSE texts[i].Value \o texts[i].Name \o ValueNameText(texts, i + 1)

\* The sum of the lengths of the names and values of fields[i..].
RECURSIVE TextLen(_, _)
TextLen(fields, i) ==
    IF i > Len(fields) THEN 0
    ELSE fields[i].Value.len + fields[i].Name.len + TextLen(fields, i + 1)

\* C15: after a successful ParseLogMessage call the backing buffer holds the
\* text of the current Fields and nothing else: it reads, from offset 0 on,
\* as the value and then the name of each Field in turn, and its length is
\* the sum of their lengths, whatever the buffer held before the call.
C15_ResetRestartsBuffer ==
    [][ \A msg \in Msgs, prefix \in Prefixes :
            (ParseLogMessage(msg, prefix) /\ err' = ErrNil) =>
                /\ Bytes(heap', buf') = ValueNameText(FieldTexts', 1)
                /\ buf'.len = TextLen(Fields', 1)
      ]_vars

\* C15 witness: the buffer was not empty when a ParseLogMessage call began;
\* the call succeeded, and a Field the holder had from before the call now
\* reads another text than it did, the bytes under it being those of the
\* current Fields.
C15_Witness ==
    /\ held /\ err = ErrNil /\ Len(Fields) > 0
    /\ Bytes(heap, buf) = ValueNameText(FieldTexts, 1)
    /\ \E i \in 1..Len(stale) :
          /\ stale[i].f.Value.arr = buf.arr
          /\ TextOf(heap, stale[i].f) # stale[i].was

\* C16: a parse call, in either mode, on JSON whose root is not an object
\* returns the error naming the root's type and leaves the parser as it was:
\* the Fields with their names and values, the backing buffer with its bytes
\* and the prefix buffer are unchanged.
C16_NonObjectRootLeavesState ==
    [][ \A msg \in NonObjectMsgs, prefix \in Prefixes :
            ParseStep(msg, prefix) =>
                /\ err' = ErrNotObject(msg.v.t)
                /\ Fields' = Fields /\ FieldTexts' = FieldTexts
                /\ buf' = buf /\ Bytes(heap', buf') = Bytes(heap, buf)
                /\ heap' = heap
                /\ prefixBuf' = prefixBuf
      ]_vars

\* C16 witness: a parse with the prefix "p." gave Fields; the call after it,
\* on a JSON string, failed with the error naming the type string, and the
\* Fields, the bytes of the buffer and the prefix p. are all still there.
C16_Witness ==
    /\ nparse = 2 /\ err = ErrNotObject("string")
    /\ Len(Fields) > 0 /\ buf.len > 0
    /\ Bytes(heap, buf) = ValueNameText(FieldTexts, 1)
    /\ prefixBuf = <<"p", ".">>

====
